---------------------------- MODULE Spec2Model ----------------------------
(***************************************************************************)
(* A model of examples/create_example_msgpack.py: the violin-tone          *)
(* synthesizer, the WAV framing, the conversation record, its msgpack      *)
(* encoding and the run of main() against the output file.                 *)
(*                                                                         *)
(* Numbers.  Samples, times and envelope values are exact rationals        *)
(* <<num, den>> with den > 0, kept in lowest terms; <<0, 0>> is the NaN    *)
(* that 0.0 / 0.0 produces.  Floating-point rounding is not modelled.      *)
(* Durations are multiples of 1/20 s and sample rates are small, a range   *)
(* in which the float products of the source truncate to the exact floor.  *)
(* Frequencies are chosen so that every sample phase is a whole number of  *)
(* quarter turns, where the sine is exactly 0, 1 or -1.                    *)
(***************************************************************************)
EXTENDS Integers, Sequences, FiniteSets, TLC

VARIABLES
    pc,            \* position of the running function
    frequency,     \* generate_violin_tone argument (rational, Hz)
    duration,      \* generate_violin_tone argument (rational, s)
    sample_rate,   \* generate_violin_tone argument (integer, Hz)
    tone,          \* what generate_violin_tone produced (its locals at exit)
    wav_bytes,     \* create_audio_qa_example: the WAV container bytes
    example_data,  \* main: the record built by create_audio_qa_example
    file,          \* the output file: [exists, content]
    before,        \* the output file as it was when the run started
    loaded,        \* main: the record decoded from the file
    msg_i,         \* main: index of the message the verification loop is at
    item_i,        \* main: index of the content part the inner loop is at
    printed,       \* main: what the verification loop printed
    encoded        \* codec law: the bytes produced by encode

vars == <<pc, frequency, duration, sample_rate, tone, wav_bytes, example_data,
          file, before, loaded, msg_i, item_i, printed, encoded>>

-----------------------------------------------------------------------------
(* Bounds of the model *)

\* largest sample rate drawn for generate_violin_tone (Hz)
MaxRate == 21
\* longest duration drawn for generate_violin_tone, in twentieths of a second
MaxDurTwentieths == 24
\* sample rate main() synthesizes at, scaled down from the default 44100
MainRate == 20

-----------------------------------------------------------------------------
(* Exact rational arithmetic *)

Abs(x) == IF x < 0 THEN -x ELSE x

Min(a, b) == IF a < b THEN a ELSE b

Max(a, b) == IF a > b THEN a ELSE b

RECURSIVE Gcd(_, _)
Gcd(a, b) == IF b = 0 THEN a ELSE Gcd(b, a % b)

NaN == <<0, 0>>

IsNaN(x) == x[2] = 0

\* lowest terms, positive denominator
Rat(n, d) ==
    IF d = 0 THEN NaN
    ELSE LET g == Gcd(Abs(n), Abs(d))
             s == IF d < 0 THEN -1 ELSE 1
         IN  <<s * (n \div g), s * (d \div g)>>

Zero == <<0, 1>>

One == <<1, 1>>

RAdd(x, y) == IF IsNaN(x) \/ IsNaN(y) THEN NaN
              ELSE Rat(x[1] * y[2] + y[1] * x[2], x[2] * y[2])

RSub(x, y) == IF IsNaN(x) \/ IsNaN(y) THEN NaN
              ELSE Rat(x[1] * y[2] - y[1] * x[2], x[2] * y[2])

RMul(x, y) == IF IsNaN(x) \/ IsNaN(y) THEN NaN
              ELSE Rat(x[1] * y[1], x[2] * y[2])

\* IEEE division: 0/0 is NaN (a nonzero numerator over 0 does not arise:
\* the only divisor is the peak of the dividend)
RDiv(x, y) == IF IsNaN(x) \/ IsNaN(y) \/ y[1] = 0 THEN NaN
              ELSE Rat(x[1] * y[2], x[2] * y[1])

RAbs(x) == <<Abs(x[1]), x[2]>>

\* x < y on finite rationals
RLess(x, y) == x[1] * y[2] < y[1] * x[2]

\* int(x) of Python: truncation toward zero
Trunc(x) == IF x[1] >= 0 THEN x[1] \div x[2] ELSE -((-x[1]) \div x[2])

-----------------------------------------------------------------------------
(* numpy operations used by the source *)

\* np.linspace(start, stop, num, endpoint): num evenly spaced values; with
\* num = 1 the single value is start
Linspace(start, stop, num, endpoint) ==
    LET div == IF endpoint THEN num - 1 ELSE num
    IN  [i \in 1..num |->
            IF div > 0
            THEN RAdd(start, RMul(Rat(i - 1, div), RSub(stop, start)))
            ELSE start]

\* a Python slice bound on a sequence of length n: negative counts from the
\* end, and the bound is clipped to 0..n
SliceIndex(i, n) == IF i < 0 THEN Max(i + n, 0) ELSE Min(i, n)

\* arr[lo:hi] = vals with numpy's broadcasting: vals must have the length of
\* the slice or length 1, otherwise ValueError
AssignSlice(arr, lo, hi, vals) ==
    LET n == Len(arr)
        a == SliceIndex(lo, n)
        b == Max(SliceIndex(hi, n), a)
        L == b - a
        K == Len(vals)
    IN  IF K = L \/ K = 1
        THEN [ok |-> TRUE,
              arr |-> [i \in 1..n |->
                          IF i > a /\ i <= b
                          THEN (IF K = 1 THEN vals[1] ELSE vals[i - a])
                          ELSE arr[i]]]
        ELSE [ok |-> FALSE, arr |-> arr]

\* arr[lo:hi] = scalar
FillSlice(arr, lo, hi, x) ==
    LET n == Len(arr)
        a == SliceIndex(lo, n)
        b == Max(SliceIndex(hi, n), a)
    IN  [i \in 1..n |-> IF i > a /\ i <= b THEN x ELSE arr[i]]

\* np.sin(2 * np.pi * x) for x a whole number of quarter turns
SinTurns(x) ==
    LET q == Trunc(RMul(<<4, 1>>, x)) % 4
    IN  CASE q = 0 -> 0
          [] q = 1 -> 1
          [] q = 2 -> 0
          [] q = 3 -> -1

\* the largest element of a nonempty array of finite numbers
MaxOf(arr) ==
    arr[CHOOSE i \in 1..Len(arr) : \A j \in 1..Len(arr) : ~RLess(arr[i], arr[j])]

-----------------------------------------------------------------------------
(* generate_violin_tone *)

\* (harmonic, amplitude) pairs
harmonics ==
    << <<1, <<1, 1>>>>, <<2, <<1, 2>>>>, <<3, <<7, 20>>>>, <<4, <<1, 4>>>>,
       <<5, <<1, 5>>>>, <<6, <<3, 20>>>>, <<7, <<1, 10>>>>, <<8, <<2, 25>>>> >>

sustain_level == <<7, 10>>

\* the normalization target
TargetPeak == <<4, 5>>

\* round(x) of Python: to the nearest integer, halves to the even one
Round(x) ==
    LET f == x[1] \div x[2]
        r2 == 2 * (x[1] % x[2])
    IN  IF r2 < x[2] THEN f
        ELSE IF r2 > x[2] THEN f + 1
        ELSE IF f % 2 = 0 THEN f ELSE f + 1

\* round(sample_rate * duration) in place of int(sample_rate * duration)
NumSamplesRounded(dur, rate) == Round(RMul(<<rate, 1>>, dur))

\* int(sample_rate * duration)
NumSamples(dur, rate) == Trunc(RMul(<<rate, 1>>, dur))

\* t = np.linspace(0, duration, N, False)
TimeAxis(dur, rate) == Linspace(Zero, dur, NumSamples(dur, rate), FALSE)

RECURSIVE HarmonicSum(_, _, _)
\* the sum over harmonics[h..] of amplitude * sin(2 pi frequency harmonic tk)
HarmonicSum(freq, tk, h) ==
    IF h > Len(harmonics) THEN Zero
    ELSE RAdd(RMul(harmonics[h][2],
                   <<SinTurns(RMul(RMul(freq, <<harmonics[h][1], 1>>), tk)), 1>>),
              HarmonicSum(freq, tk, h + 1))

\* audio after the harmonic loop
Accumulate(freq, t) == [i \in 1..Len(t) |-> HarmonicSum(freq, t[i], 1)]

\* int(0.1 * sample_rate): attack and decay lengths in samples
AttackSamples(rate) == Trunc(RMul(<<1, 10>>, <<rate, 1>>))

\* int(0.3 * sample_rate)
ReleaseSamples(rate) == Trunc(RMul(<<3, 10>>, <<rate, 1>>))

\* the four slice assignments that build the envelope; the first that raises
\* ends the function
Envelope(n, rate) ==
    LET attack == AttackSamples(rate)
        decay == AttackSamples(rate)
        release == ReleaseSamples(rate)
        ones == [i \in 1..n |-> One]
        s1 == AssignSlice(ones, 0, attack, Linspace(Zero, One, attack, TRUE))
        s2 == AssignSlice(s1.arr, attack, attack + decay,
                          Linspace(One, sustain_level, decay, TRUE))
        s3 == FillSlice(s2.arr, attack + decay, -release, sustain_level)
        s4 == AssignSlice(s3, -release, n,
                          Linspace(sustain_level, Zero, release, TRUE))
    IN  IF ~s1.ok THEN [ok |-> FALSE, arr |-> s1.arr]
        ELSE IF ~s2.ok THEN [ok |-> FALSE, arr |-> s2.arr]
        ELSE s4

\* np.max(audio): the peak without the absolute value
PeakSigned(audio) == MaxOf(audio)

\* np.max(np.abs(audio)), audio nonempty
Peak(audio) == MaxOf([i \in 1..Len(audio) |-> RAbs(audio[i])])

\* audio / peak * 0.8
Normalize(audio) ==
    LET p == Peak(audio)
    IN  [i \in 1..Len(audio) |-> RMul(RDiv(audio[i], p), TargetPeak)]

\* The function's outcome and its locals: status is "ok" when it returns
\* (audio, sample_rate) and "ValueError" when a slice assignment or np.max of
\* an empty array raises.
generate_violin_tone(freq, dur, rate) ==
    LET n == NumSamples(dur, rate)
        t == TimeAxis(dur, rate)
        raw == Accumulate(freq, t)
        env == Envelope(n, rate)
        enveloped == [i \in 1..n |-> RMul(raw[i], env.arr[i])]
        failed == [status |-> "ValueError", t |-> t, envelope |-> env.arr,
                   enveloped |-> <<>>, audio |-> <<>>, sample_rate |-> rate]
    IN  IF ~env.ok THEN failed
        ELSE IF n = 0 THEN [failed EXCEPT !.enveloped = enveloped]
        ELSE [status |-> "ok", t |-> t, envelope |-> env.arr,
              enveloped |-> enveloped, audio |-> Normalize(enveloped),
              sample_rate |-> rate]

-----------------------------------------------------------------------------
(* audio_to_wav_bytes *)

\* little-endian bytes of an unsigned integer
LE16(x) == <<x % 256, (x \div 256) % 256>>

LE32(x) == <<x % 256, (x \div 256) % 256, (x \div 65536) % 256,
             (x \div 16777216) % 256>>

\* (audio * 32767).astype(np.int16) of one finite sample, as two bytes
SampleBytes(x) == LE16(Trunc(RMul(x, <<32767, 1>>)) % 65536)

\* audio_int16.tobytes(): two bytes per sample, in order
FrameBytes(audio) ==
    [j \in 1..(2 * Len(audio)) |->
        SampleBytes(audio[(j + 1) \div 2])[IF j % 2 = 1 THEN 1 ELSE 2]]

\* the 44-byte RIFF/WAVE header the wave module writes for mono 16-bit PCM:
\* "RIFF" size "WAVE" "fmt " 16 PCM channels rate byterate align bits "data" size
WavHeader(datalen, rate) ==
    <<82, 73, 70, 70>> \o LE32(36 + datalen) \o <<87, 65, 86, 69>>
    \o <<102, 109, 116, 32>> \o LE32(16) \o LE16(1) \o LE16(1)
    \o LE32(rate) \o LE32(rate * 2) \o LE16(2) \o LE16(16)
    \o <<100, 97, 116, 97>> \o LE32(datalen)

audio_to_wav_bytes(audio, rate) ==
    WavHeader(2 * Len(audio), rate) \o FrameBytes(audio)

-----------------------------------------------------------------------------
(* Python values: a kind k and a payload v.  A dict is its (key, value)
   pairs in insertion order, keys being strings. *)

PyStr(s) == [k |-> "str", v |-> s]

PyBytes(b) == [k |-> "bytes", v |-> b]

PyInt(i) == [k |-> "int", v |-> i]

PyFloat(x) == [k |-> "float", v |-> x]

PyList(items) == [k |-> "list", v |-> items]

PyDict(pairs) == [k |-> "dict", v |-> pairs]

HasKey(d, key) == \E i \in 1..Len(d.v) : d.v[i][1] = key

\* d[key]
Get(d, key) == d.v[CHOOSE i \in 1..Len(d.v) : d.v[i][1] = key][2]

\* d[key] = value: replaces the value in place or appends the pair
Put(d, key, value) ==
    IF HasKey(d, key)
    THEN [d EXCEPT !.v = [i \in 1..Len(d.v) |->
                             IF d.v[i][1] = key THEN <<key, value>> ELSE d.v[i]]]
    ELSE [d EXCEPT !.v = Append(d.v, <<key, value>>)]

-----------------------------------------------------------------------------
(* create_audio_qa_example *)

\* the user message's content with the audio part ahead of the text part
UserContentAudioFirst(wav, rate) ==
    PyList(<< PyDict(<< <<"type", PyStr("audio")>>,
                    <<"audio", PyBytes(wav)>>,
                    <<"format", PyStr("wav")>>,
                    <<"sample_rate", PyInt(rate)>>,
                    <<"duration", PyFloat(<<2, 1>>)>> >>),
            PyDict(<< <<"type", PyStr("text")>>,
                    <<"text", PyStr("Please describe this audio. What instrument does it sound like?")>> >>) >>)

\* the user message's content: the text part, then the audio part
UserContent(wav, rate) ==
    PyList(<< PyDict(<< <<"type", PyStr("text")>>,
                    <<"text", PyStr("Please describe this audio. What instrument does it sound like?")>> >>),
            PyDict(<< <<"type", PyStr("audio")>>,
                    <<"audio", PyBytes(wav)>>,
                    <<"format", PyStr("wav")>>,
                    <<"sample_rate", PyInt(rate)>>,
                    <<"duration", PyFloat(<<2, 1>>)>> >>) >>)

messages(wav, rate) ==
    PyList(<< PyDict(<< <<"role", PyStr("system")>>,
                    <<"content", PyStr("You are a helpful music assistant that can analyze and describe audio.")>> >>),
            PyDict(<< <<"role", PyStr("user")>>,
                    <<"content", UserContent(wav, rate)>> >>),
            PyDict(<< <<"role", PyStr("assistant")>>,
                    <<"content", PyStr("This audio contains a sustained tone at approximately 440 Hz (A4 pitch).\n\nKey characteristics:\n- Instrument: Bowed string instrument (likely violin)\n- Harmonic structure: Rich overtones\n- Attack: Smooth\n- Release: Gradual\n\nThe tone is typical of legato bowing technique.")>> >>) >>)

\* example_data, given the WAV bytes and the sample rate the synthesizer returned
create_audio_qa_example(wav, rate) ==
    PyDict(<< <<"id", PyStr("audio_qa_example_001")>>,
            <<"type", PyStr("audio_chat")>>,
            <<"messages", messages(wav, rate)>>,
            <<"metadata",
              PyDict(<< <<"created_at", PyStr("2025-12-17T15:00:00Z")>>,
                      <<"source", PyStr("example")>>,
                      <<"description", PyStr("Example audio QA conversation with violin-like tone")>> >>)>> >>)

-----------------------------------------------------------------------------
(* msgspec.msgpack.encode and decode.  The encoding is modelled as the
   sequence of msgpack objects it is made of, each a token <<format, n,
   payload>>: the format family of its first byte, the length or count its
   header states, and for a scalar its payload.  A container's token is
   followed by the tokens of its members. *)

StrFormat(n) == IF n < 32 THEN "fixstr" ELSE IF n < 256 THEN "str8"
                ELSE IF n < 65536 THEN "str16" ELSE "str32"

BinFormat(n) == IF n < 256 THEN "bin8" ELSE IF n < 65536 THEN "bin16" ELSE "bin32"

ArrayFormat(n) == IF n < 16 THEN "fixarray" ELSE IF n < 65536 THEN "array16"
                  ELSE "array32"

MapFormat(n) == IF n < 16 THEN "fixmap" ELSE IF n < 65536 THEN "map16" ELSE "map32"

IntFormat(i) ==
    IF i >= 0
    THEN (IF i < 128 THEN "fixint" ELSE IF i < 256 THEN "uint8"
          ELSE IF i < 65536 THEN "uint16" ELSE "uint32")
    ELSE (IF i >= -32 THEN "negfixint" ELSE IF i >= -128 THEN "int8"
          ELSE IF i >= -32768 THEN "int16" ELSE "int32")

StrFormats == {"fixstr", "str8", "str16", "str32"}

BinFormats == {"bin8", "bin16", "bin32"}

ArrayFormats == {"fixarray", "array16", "array32"}

MapFormats == {"fixmap", "map16", "map32"}

IntFormats == {"fixint", "uint8", "uint16", "uint32", "negfixint", "int8",
               "int16", "int32"}

StrToken(s) == <<StrFormat(Len(s)), Len(s), s>>

\* a byte blob written with the string family's tag
BinTokenAsStr(b) == <<StrFormat(Len(b)), Len(b), b>>

\* a byte blob: the bin family, the bytes stored as they are
BinToken(b) == <<BinFormat(Len(b)), Len(b), b>>

RECURSIVE EncodeValue(_), EncodeItems(_, _), EncodePairs(_, _)
\* the tokens of one value
EncodeValue(x) ==
    CASE x.k = "str" -> <<StrToken(x.v)>>
      [] x.k = "bytes" -> <<BinToken(x.v)>>
      [] x.k = "int" -> << <<IntFormat(x.v), 0, x.v>> >>
      [] x.k = "float" -> << <<"float64", 0, x.v>> >>
      [] x.k = "list" ->
            << <<ArrayFormat(Len(x.v)), Len(x.v), <<>>>> >> \o EncodeItems(x.v, 1)
      [] x.k = "dict" ->
            << <<MapFormat(Len(x.v)), Len(x.v), <<>>>> >> \o EncodePairs(x.v, 1)

\* the members of a list from index i on, in order
EncodeItems(items, i) ==
    IF i > Len(items) THEN <<>>
    ELSE EncodeValue(items[i]) \o EncodeItems(items, i + 1)

\* the pairs of a dict from index i on, in insertion order: key, then value
EncodePairs(pairs, i) ==
    IF i > Len(pairs) THEN <<>>
    ELSE <<StrToken(pairs[i][1])>> \o EncodeValue(pairs[i][2])
         \o EncodePairs(pairs, i + 1)

\* msgspec.msgpack.encode(obj)
Encode(obj) == EncodeValue(obj)

DecodeFailure == [ok |-> FALSE, val |-> [k |-> "none"], next |-> 0]

RECURSIVE DecodeValue(_, _), DecodeItems(_, _, _, _), DecodePairs(_, _, _, _)
\* one value read at position pos: [ok, val, next]
DecodeValue(toks, pos) ==
    IF pos > Len(toks) THEN DecodeFailure
    ELSE LET tk == toks[pos]
         IN  CASE tk[1] \in StrFormats ->
                    [ok |-> TRUE, val |-> PyStr(tk[3]), next |-> pos + 1]
               [] tk[1] \in BinFormats ->
                    [ok |-> TRUE, val |-> PyBytes(tk[3]), next |-> pos + 1]
               [] tk[1] \in IntFormats ->
                    [ok |-> TRUE, val |-> PyInt(tk[3]), next |-> pos + 1]
               [] tk[1] = "float64" ->
                    [ok |-> TRUE, val |-> PyFloat(tk[3]), next |-> pos + 1]
               [] tk[1] \in ArrayFormats ->
                    DecodeItems(toks, pos + 1, tk[2], <<>>)
               [] tk[1] \in MapFormats ->
                    DecodePairs(toks, pos + 1, tk[2], PyDict(<<>>))
               [] OTHER -> DecodeFailure

\* the n remaining members of a list, appended to acc
DecodeItems(toks, pos, n, acc) ==
    IF n = 0 THEN [ok |-> TRUE, val |-> PyList(acc), next |-> pos]
    ELSE LET r == DecodeValue(toks, pos)
         IN  IF ~r.ok THEN DecodeFailure
             ELSE DecodeItems(toks, r.next, n - 1, Append(acc, r.val))

\* the n remaining pairs of a map, stored into the dict acc
DecodePairs(toks, pos, n, acc) ==
    IF n = 0 THEN [ok |-> TRUE, val |-> acc, next |-> pos]
    ELSE LET key == DecodeValue(toks, pos)
         IN  IF ~key.ok \/ key.val.k # "str" THEN DecodeFailure
             ELSE LET r == DecodeValue(toks, key.next)
                  IN  IF ~r.ok THEN DecodeFailure
                      ELSE DecodePairs(toks, r.next, n - 1,
                                       Put(acc, key.val.v, r.val))

\* msgspec.msgpack.decode(buf): one value and nothing after it
Decode(toks) ==
    LET r == DecodeValue(toks, 1)
    IN  IF r.ok /\ r.next = Len(toks) + 1 THEN r ELSE DecodeFailure

-----------------------------------------------------------------------------
(* The synthesizer on its own: generate_violin_tone applied to drawn inputs *)

NoTone == [status |-> "none"]

NoFile == [exists |-> FALSE, content |-> <<>>]

NoValue == [k |-> "none"]

Durations == {<<n, 20>> : n \in 1..MaxDurTwentieths}

\* the frequencies (0 among them) at which consecutive samples of the
\* fundamental are 0, 1 or 3 quarter turns apart
QuarterTurnFrequencies(dur, rate) ==
    {Rat(q * NumSamples(dur, rate) * dur[2], 4 * dur[1]) : q \in {0, 1, 3}}

InitSynth ==
    /\ pc = "call"
    /\ sample_rate \in 1..MaxRate
    /\ duration \in Durations
    /\ frequency \in QuarterTurnFrequencies(duration, sample_rate)
    /\ tone = NoTone
    /\ wav_bytes = <<>>
    /\ example_data = NoValue
    /\ file = NoFile
    /\ before = NoFile
    /\ loaded = NoValue
    /\ msg_i = 0
    /\ item_i = 0
    /\ printed = <<>>
    /\ encoded = <<>>

\* generate_violin_tone(frequency, duration, sample_rate) runs to its end
Synthesize ==
    /\ pc = "call"
    /\ tone' = generate_violin_tone(frequency, duration, sample_rate)
    /\ pc' = IF tone'.status = "ok" THEN "returned" ELSE "raised"
    /\ UNCHANGED <<frequency, duration, sample_rate, wav_bytes, example_data,
                   file, before, loaded, msg_i, item_i, printed, encoded>>

NextSynth == Synthesize

SpecSynth == InitSynth /\ [][NextSynth]_vars

\* attack + decay + release < duration, i.e. 0.5 s < duration
ValidEnvelope == RLess(<<1, 2>>, duration)

AllZero(arr) == \A i \in 1..Len(arr) : arr[i][1] = 0 /\ arr[i][2] # 0

\* C4 as claimed: with a valid envelope (0.5 s < duration) the envelope
\* multiplier of the first sample and that of the last sample are 0
C4_EnvelopeEndsAtZero ==
    (pc = "returned" /\ ValidEnvelope /\ frequency[1] > 0) =>
        /\ tone.envelope[1] = Zero
        /\ tone.envelope[Len(tone.envelope)] = Zero

\* C5: a returned waveform whose enveloped signal is not identically zero
\* has peak absolute value exactly 0.8: no sample exceeds it and one attains it
C5_PeakIsTarget ==
    (pc = "returned" /\ ValidEnvelope /\ ~AllZero(tone.enveloped)) =>
        /\ \A i \in 1..Len(tone.audio) :
              ~IsNaN(tone.audio[i]) /\ ~RLess(TargetPeak, RAbs(tone.audio[i]))
        /\ \E i \in 1..Len(tone.audio) : RAbs(tone.audio[i]) = TargetPeak

\* a non-degenerate waveform was returned whose peak is a negative sample
C5_Witness ==
    /\ pc = "returned"
    /\ ValidEnvelope
    /\ ~AllZero(tone.enveloped)
    /\ \E i \in 1..Len(tone.audio) : tone.audio[i] = <<-4, 5>>
    /\ \A i \in 1..Len(tone.audio) : tone.audio[i] # TargetPeak

\* C6 as claimed: a call with attack + decay + release >= duration
\* (duration <= 0.5 s) is rejected, so a waveform is returned only for a
\* valid envelope, and the segments of a returned waveform's envelope fit
\* into it without overlapping
C6_InvalidEnvelopeRejected ==
    pc = "returned" =>
        /\ ValidEnvelope
        /\ 2 * AttackSamples(sample_rate) + ReleaseSamples(sample_rate)
               <= Len(tone.audio)

\* C7 as claimed: when the signal is all zero before normalization the call
\* ends in DegenerateSignalError, and no returned waveform holds a NaN
C7_DegenerateSignalRejected ==
    /\ (pc # "call" /\ ValidEnvelope /\ Len(tone.enveloped) > 0
        /\ AllZero(tone.enveloped)) =>
           tone.status = "DegenerateSignalError"
    /\ (pc = "returned" /\ ValidEnvelope) =>
           \A i \in 1..Len(tone.audio) : ~IsNaN(tone.audio[i])

\* C10 as claimed: sample k (from 0) of the waveform is evaluated at time
\* k / sample_rate
C10_TimeAxisStep ==
    (pc = "returned" /\ frequency[1] > 0) =>
        \A i \in 1..Len(tone.t) : tone.t[i] = Rat(i - 1, sample_rate)

-----------------------------------------------------------------------------
(* main() against the output file *)

\* duration=2.0 of the call in create_audio_qa_example
MainDuration == <<2, 1>>

\* the tone's frequency, scaled with the rate: a quarter turn per sample
MainFrequency == Rat(MainRate, 4)

\* what the output path may hold when the run starts: nothing, an empty
\* file, or an earlier record
PriorContents ==
    { <<>>,
      Encode(PyDict(<< <<"id", PyStr("old")>> >>)),
      Encode(create_audio_qa_example(<<82, 73, 70, 70>>, 8000)) }

PriorFiles == {NoFile} \cup {[exists |-> TRUE, content |-> c] : c \in PriorContents}

Init ==
    /\ pc = "main"
    /\ frequency = MainFrequency
    /\ duration = MainDuration
    /\ sample_rate = MainRate
    /\ tone = NoTone
    /\ wav_bytes = <<>>
    /\ example_data = NoValue
    /\ file \in PriorFiles
    /\ before = file
    /\ loaded = NoValue
    /\ msg_i = 0
    /\ item_i = 0
    /\ printed = <<>>
    /\ encoded = <<>>

\* line 80: audio, sample_rate = generate_violin_tone(frequency=440, duration=2.0)
CallGenerateViolinTone ==
    /\ pc = "main"
    /\ tone' = generate_violin_tone(frequency, duration, sample_rate)
    /\ pc' = IF tone'.status = "ok" THEN "tone" ELSE "failed"
    /\ UNCHANGED <<frequency, duration, sample_rate, wav_bytes, example_data,
                   file, before, loaded, msg_i, item_i, printed, encoded>>

\* line 81: wav_bytes = audio_to_wav_bytes(audio, sample_rate)
CallAudioToWavBytes ==
    /\ pc = "tone"
    /\ wav_bytes' = audio_to_wav_bytes(tone.audio, tone.sample_rate)
    /\ pc' = "wav"
    /\ UNCHANGED <<frequency, duration, sample_rate, tone, example_data,
                   file, before, loaded, msg_i, item_i, printed, encoded>>

\* lines 87-125: the record is built and returned to main
BuildExampleData ==
    /\ pc = "wav"
    /\ example_data' = create_audio_qa_example(wav_bytes, tone.sample_rate)
    /\ pc' = "built"
    /\ UNCHANGED <<frequency, duration, sample_rate, tone, wav_bytes,
                   file, before, loaded, msg_i, item_i, printed, encoded>>

\* line 137: open(output_path, 'wb') creates the file or truncates it
OpenForWrite ==
    /\ pc = "built"
    /\ file' = [exists |-> TRUE, content |-> <<>>]
    /\ pc' = "open"
    /\ UNCHANGED <<frequency, duration, sample_rate, tone, wav_bytes,
                   example_data, before, loaded, msg_i, item_i, printed, encoded>>

\* line 138: the record is encoded and written, and the with block closes
\* the file
EncodeAndWrite ==
    /\ pc = "open"
    /\ file' = [exists |-> TRUE, content |-> Encode(example_data)]
    /\ pc' = "closed"
    /\ UNCHANGED <<frequency, duration, sample_rate, tone, wav_bytes,
                   example_data, before, loaded, msg_i, item_i, printed, encoded>>

\* line 138: encode or f.write raises (out of memory, disk full, I/O error)
\* after none or some of the encoding has reached the file; the with block
\* closes the file and the exception ends the run
WriteFails ==
    /\ pc = "open"
    /\ \E n \in 0..(Len(Encode(example_data)) - 1) :
          file' = [exists |-> TRUE,
                   content |-> SubSeq(Encode(example_data), 1, n)]
    /\ pc' = "failed"
    /\ UNCHANGED <<frequency, duration, sample_rate, tone, wav_bytes,
                   example_data, before, loaded, msg_i, item_i, printed, encoded>>

\* lines 143-144: the file is read back and decoded
ReadAndDecode ==
    /\ pc = "closed"
    /\ LET r == Decode(file.content)
       IN  /\ loaded' = r.val
           /\ pc' = IF r.ok THEN "loaded" ELSE "failed"
    /\ UNCHANGED <<frequency, duration, sample_rate, tone, wav_bytes,
                   example_data, file, before, msg_i, item_i, printed, encoded>>

\* lines 146-149: id, type and message count are printed and the loop
\* starts; a missing key raises KeyError
PrintSummary ==
    /\ pc = "loaded"
    /\ IF HasKey(loaded, "id") /\ HasKey(loaded, "type") /\ HasKey(loaded, "messages")
       THEN /\ printed' = printed \o
                   << <<"ID", Get(loaded, "id").v>>,
                      <<"Type", Get(loaded, "type").v>>,
                      <<"Messages", Len(Get(loaded, "messages").v)>> >>
            /\ msg_i' = 1
            /\ pc' = "scan"
       ELSE /\ printed' = printed
            /\ msg_i' = msg_i
            /\ pc' = "failed"
    /\ item_i' = 0
    /\ UNCHANGED <<frequency, duration, sample_rate, tone, wav_bytes,
                   example_data, file, before, loaded, encoded>>

\* lines 152-153: the next message; a user message whose content is a list
\* is entered
ScanMessage ==
    /\ pc = "scan"
    /\ item_i = 0
    /\ msg_i <= Len(Get(loaded, "messages").v)
    /\ LET msg == Get(loaded, "messages").v[msg_i]
       IN  IF Get(msg, "role") = PyStr("user") /\ Get(msg, "content").k = "list"
           THEN item_i' = 1 /\ msg_i' = msg_i
           ELSE item_i' = 0 /\ msg_i' = msg_i + 1
    /\ UNCHANGED <<pc, frequency, duration, sample_rate, tone, wav_bytes,
                   example_data, file, before, loaded, printed, encoded>>

\* lines 154-158: the next content part; an audio part's size and format
\* are printed
ScanItem ==
    /\ pc = "scan"
    /\ item_i > 0
    /\ LET content == Get(Get(loaded, "messages").v[msg_i], "content").v
       IN  IF item_i > Len(content)
           THEN item_i' = 0 /\ msg_i' = msg_i + 1 /\ printed' = printed
           ELSE /\ item_i' = item_i + 1
                /\ msg_i' = msg_i
                /\ printed' =
                     IF HasKey(content[item_i], "type")
                        /\ Get(content[item_i], "type") = PyStr("audio")
                     THEN printed \o
                          << <<"Audio size", Len(Get(content[item_i], "audio").v)>>,
                             <<"Audio format", Get(content[item_i], "format").v>> >>
                     ELSE printed
    /\ UNCHANGED <<pc, frequency, duration, sample_rate, tone, wav_bytes,
                   example_data, file, before, loaded, encoded>>

\* line 160: the loop is over and main returns
Finish ==
    /\ pc = "scan"
    /\ item_i = 0
    /\ msg_i > Len(Get(loaded, "messages").v)
    /\ pc' = "done"
    /\ UNCHANGED <<frequency, duration, sample_rate, tone, wav_bytes,
                   example_data, file, before, loaded, msg_i, item_i, printed,
                   encoded>>

Next ==
    \/ CallGenerateViolinTone
    \/ CallAudioToWavBytes
    \/ BuildExampleData
    \/ OpenForWrite
    \/ EncodeAndWrite
    \/ WriteFails
    \/ ReadAndDecode
    \/ PrintSummary
    \/ ScanMessage
    \/ ScanItem
    \/ Finish

Spec == Init /\ [][Next]_vars

\* The output path belongs to the file system: between the close of line 138
\* and the open of line 143 another process may write an earlier record there.
OtherProcessWrites ==
    /\ pc = "closed"
    /\ \E c \in PriorContents :
          /\ file.content = Encode(example_data)
          /\ c # <<>>
          /\ c # file.content
          /\ file' = [exists |-> TRUE, content |-> c]
    /\ UNCHANGED <<pc, frequency, duration, sample_rate, tone, wav_bytes,
                   example_data, before, loaded, msg_i, item_i, printed, encoded>>

NextEnv == Next \/ OtherProcessWrites

SpecEnv == Init /\ [][NextEnv]_vars

\* the decoded record's messages, and the parts of its user message
LoadedMessages == Get(loaded, "messages").v

LoadedUserParts == Get(LoadedMessages[2], "content").v

\* C2: when main has run to completion the decoded record has the id, the
\* type and the three roles in order; the user message has two parts, text
\* then audio; and the audio part has format "wav", the synthesizer's sample
\* rate and as many bytes as audio_to_wav_bytes produced
C2_EndToEnd ==
    pc = "done" =>
        /\ Get(loaded, "id") = PyStr("audio_qa_example_001")
        /\ Get(loaded, "type") = PyStr("audio_chat")
        /\ Len(LoadedMessages) = 3
        /\ Get(LoadedMessages[1], "role") = PyStr("system")
        /\ Get(LoadedMessages[2], "role") = PyStr("user")
        /\ Get(LoadedMessages[3], "role") = PyStr("assistant")
        /\ Get(LoadedMessages[2], "content").k = "list"
        /\ Len(LoadedUserParts) = 2
        /\ Get(LoadedUserParts[1], "type") = PyStr("text")
        /\ Get(LoadedUserParts[2], "type") = PyStr("audio")
        /\ Get(LoadedUserParts[2], "format") = PyStr("wav")
        /\ Get(LoadedUserParts[2], "sample_rate") = PyInt(tone.sample_rate)
        /\ Get(LoadedUserParts[2], "audio").k = "bytes"
        /\ Len(Get(LoadedUserParts[2], "audio").v) = Len(wav_bytes)

\* main has run to completion over a file that held an earlier record, and
\* the loop printed the size of a WAV container with header and samples
C2_Witness ==
    /\ pc = "done"
    /\ before.exists
    /\ Len(before.content) > 0
    /\ Len(wav_bytes) = 44 + 2 * Len(tone.audio)
    /\ Len(tone.audio) > 0
    /\ Len(printed) = 5
    /\ printed[4] = <<"Audio size", Len(wav_bytes)>>

\* C8 as claimed: after a failed run the output file is as it was before the
\* run or holds the complete encoded record
C8_AtomicOutput ==
    pc = "failed" =>
        \/ file = before
        \/ (file.exists /\ file.content = Encode(example_data))

\* C9 as claimed: the run does not end in success when the decoded audio
\* part's byte length or format differs from what was built
C9_MismatchIsFatal ==
    pc = "done" =>
        \A m \in 1..Len(LoadedMessages) :
            (Get(LoadedMessages[m], "role") = PyStr("user")
             /\ Get(LoadedMessages[m], "content").k = "list") =>
                \A p \in 1..Len(Get(LoadedMessages[m], "content").v) :
                    LET part == Get(LoadedMessages[m], "content").v[p]
                    IN  Get(part, "type") = PyStr("audio") =>
                            /\ Len(Get(part, "audio").v) = Len(wav_bytes)
                            /\ Get(part, "format") = PyStr("wav")

-----------------------------------------------------------------------------
(* The codec on its own: encode, then decode, applied to drawn records *)

\* longest audio payload drawn, in bytes
MaxBlobLen == 1

\* most messages in a drawn record
MaxMessages == 2

Blobs == UNION {[1..n -> {0, 255}] : n \in 0..MaxBlobLen}

TextPart == PyDict(<< <<"type", PyStr("text")>>, <<"text", PyStr("What is this?")>> >>)

AudioPart(b) ==
    PyDict(<< <<"type", PyStr("audio")>>, <<"audio", PyBytes(b)>>,
              <<"format", PyStr("wav")>>, <<"sample_rate", PyInt(8000)>>,
              <<"duration", PyFloat(<<1, 2>>)>> >>)

Message(role, content) == PyDict(<< <<"role", PyStr(role)>>, <<"content", content>> >>)

\* text-only turns, and user turns whose content is a list of parts
DrawnMessages ==
    { Message("system", PyStr("Be brief.")),
      Message("assistant", PyStr("")),
      Message("user", PyList(<<>>)) }
    \cup { Message("user", PyList(<<TextPart, AudioPart(b)>>)) : b \in Blobs }
    \cup { Message("user", PyList(<<AudioPart(b), TextPart>>)) : b \in Blobs }

DrawnMetadata ==
    { PyDict(<<>>),
      PyDict(<< <<"source", PyStr("example")>>, <<"created_at", PyStr("2025-12-17T15:00:00Z")>> >>) }

DrawnRecords ==
    { PyDict(<< <<"id", PyStr("r1")>>, <<"type", PyStr("audio_chat")>>,
                <<"messages", PyList(ms)>>, <<"metadata", md>> >>) :
        ms \in UNION {[1..n -> DrawnMessages] : n \in 0..MaxMessages},
        md \in DrawnMetadata }

InitCodec ==
    /\ pc = "record"
    /\ example_data \in DrawnRecords
    /\ frequency = Zero
    /\ duration = Zero
    /\ sample_rate = 0
    /\ tone = NoTone
    /\ wav_bytes = <<>>
    /\ file = NoFile
    /\ before = NoFile
    /\ loaded = NoValue
    /\ msg_i = 0
    /\ item_i = 0
    /\ printed = <<>>
    /\ encoded = <<>>

\* msgspec.msgpack.encode(example_data)
EncodeRecord ==
    /\ pc = "record"
    /\ encoded' = Encode(example_data)
    /\ pc' = "encoded"
    /\ UNCHANGED <<frequency, duration, sample_rate, tone, wav_bytes,
                   example_data, file, before, loaded, msg_i, item_i, printed>>

\* msgspec.msgpack.decode of what was encoded
DecodeRecord ==
    /\ pc = "encoded"
    /\ LET r == Decode(encoded)
       IN  /\ loaded' = r.val
           /\ pc' = IF r.ok THEN "decoded" ELSE "DecodeError"
    /\ UNCHANGED <<frequency, duration, sample_rate, tone, wav_bytes,
                   example_data, file, before, msg_i, item_i, printed, encoded>>

NextCodec == EncodeRecord \/ DecodeRecord

SpecCodec == InitCodec /\ [][NextCodec]_vars

\* C1: decoding the encoding of a record succeeds and gives the record back:
\* the same messages and parts in the same order, every audio payload the
\* same bytes and still a byte blob, the same metadata pairs
C1_RoundTrip ==
    pc \notin {"record", "encoded"} =>
        /\ pc = "decoded"
        /\ loaded = example_data

\* a record with two messages, one of them a user turn with a non-empty
\* audio payload ahead of its text, and with metadata, was decoded
C1_Witness ==
    /\ pc = "decoded"
    /\ Len(Get(example_data, "messages").v) = 2
    /\ Len(Get(example_data, "metadata").v) = 2
    /\ \E m \in 1..2 :
          LET c == Get(Get(loaded, "messages").v[m], "content")
          IN  /\ c.k = "list"
              /\ Len(c.v) = 2
              /\ Get(c.v[1], "type") = PyStr("audio")
              /\ Get(c.v[1], "audio") = PyBytes(<<255>>)

=============================================================================
